---- MODULE Spec2Model ----
(***************************************************************************)
(* OllamaChatService (oss_chat_python/chat_service.py): the streaming chat *)
(* session.  A foreground caller invokes send_message_sync, set_model,     *)
(* clear_conversation and stop_generation; every send_message_sync starts  *)
(* a worker thread that runs _send_message.  The worker's statements that  *)
(* touch shared state (current_model, conversation_history,                *)
(* _is_generating, the callback) are separate steps, so that foreground    *)
(* operations and other workers interleave between them as threads do.     *)
(*                                                                         *)
(* Text is a sequence of one-character strings, so that concatenation,     *)
(* emptiness and the prefix relation are those of Python's str.            *)
(* The callback is an argument of send_message_sync; it is modelled as a   *)
(* function that records its invocation and returns normally.              *)
(***************************************************************************)
EXTENDS Integers, Sequences, FiniteSets, TLC

\* ------------------------------------------------------------------ bounds
\* Lines the server sends on one response stream, at most.
MaxLines == 2
\* send_message_sync is not called once conversation_history is this long.
MaxHistory == 2
\* Lines on one response stream, at most, when turns run concurrently.
MaxShortLines == 1
\* Entries of the models array of a model listing.
MaxModels == 2
\* Entries of chat_messages, the list of the chat display.
MaxChat == 3
\* Send clicks the panel accepts.
MaxSends == 1

\* Worker threads that may be alive at once (a finished thread's slot is
\* taken by the thread of a later call).
Threads == {1, 2}

\* ------------------------------------------------------------------ text
\* Python's None, as a value distinct from every text.
None == <<"None">>

ErrNoModel == <<"E", "r", "r", "o", "r", ":", " ", "N", "o", " ", "m", "o", "d", "e", "l", " ", "s", "e", "l", "e", "c", "t", "e", "d">>
ErrEmpty == <<"E", "r", "r", "o", "r", ":", " ", "E", "m", "p", "t", "y", " ", "r", "e", "s", "p", "o", "n", "s", "e", " ", "f", "r", "o", "m", " ", "m", "o", "d", "e", "l">>
ErrStatusPrefix == <<"E", "r", "r", "o", "r", ":", " ", "S", "e", "r", "v", "e", "r", " ", "r", "e", "t", "u", "r", "n", "e", "d", " ", "s", "t", "a", "t", "u", "s", " ">>
ErrStreamingPrefix == <<"S", "t", "r", "e", "a", "m", "i", "n", "g", " ", "e", "r", "r", "o", "r", ":", " ">>

DigitChar == <<"0", "1", "2", "3", "4", "5", "6", "7", "8", "9">>

\* str(n) of a non-negative integer, as the f-string formats resp.status.
RECURSIVE IntText(_)
IntText(n) ==
    IF n < 10 THEN <<DigitChar[n + 1]>>
    ELSE IntText(n \div 10) \o <<DigitChar[(n % 10) + 1]>>

\* f"Error: Server returned status {resp.status}"
ErrStatus(status) == ErrStatusPrefix \o IntText(status)

\* f"Streaming error: {str(e)}"
ErrStreaming(e) == ErrStreamingPrefix \o e

IsPrefix(p, s) == Len(p) <= Len(s) /\ SubSeq(s, 1, Len(p)) = p

\* ------------------------------------------------------------------ inputs
\* Values of the message argument of send_message_sync.
Messages == {<<"h", "i">>}

\* Values set_model is called with; "" is a str that Python treats as false.
ModelNames == {<<>>, <<"m">>}

\* The system prompt global_variables.py loaded: load_system_prompt strips
\* the file's text, which may leave it empty.
SystemPrompts == {<<>>, <<"P">>}

\* global_variables.DEFAULT_OLLAMA_HOST, the host the UI constructs the
\* service with (shortened).
DEFAULT_OLLAMA_HOST == <<"h", ":", "1">>

\* Values typed into the host field.
HostInputs == {<<"h", ":", "1">>, <<"h", ":", "2", "/", "/">>}

\* message.content values of a stream line.
Chunks == {<<>>, <<"S">>, <<"x">>}

\* resp.status values.
Statuses == {200, 204, 500}

\* str(e) of the exceptions a connection raises (refused, reset, timed out).
TransportErrors == {<<"r", "e", "f", "u", "s", "e", "d">>, <<"r", "e", "s", "e", "t">>}

\* str(e) of the TypeError / AttributeError that a JSON value of the wrong
\* shape raises at lines 166-169.
ShapeError == <<"s", "h", "a", "p", "e">>

\* One line of the response stream, by what lines 160-172 do with it:
\*   malformed  bytes that are not UTF-8 or not JSON: json.loads raises, skipped
\*   non_object valid JSON that is not an object ('message' in x or x.get raises)
\*   bad_message an object whose message is not an object (.get raises)
\*   object     an object; hasMessage: the 'message' key is present, content:
\*              message.content ("" when absent), done: the done flag
ObjectLines ==
    [kind : {"object"}, hasMessage : {TRUE}, content : Chunks, done : BOOLEAN]
    \cup [kind : {"object"}, hasMessage : {FALSE}, content : {<<>>}, done : BOOLEAN]

Lines ==
    ObjectLines
    \cup [kind : {"malformed", "non_object", "bad_message"},
          hasMessage : {FALSE}, content : {<<>>}, done : {FALSE}]

\* The lines of the streams of concurrent turns: a content line, a done
\* line without content, and a line of the wrong shape.
ShortLines ==
    {[kind |-> "object", hasMessage |-> TRUE, content |-> <<"S">>, done |-> FALSE],
     [kind |-> "object", hasMessage |-> FALSE, content |-> <<>>, done |-> TRUE],
     [kind |-> "non_object", hasMessage |-> FALSE, content |-> <<>>, done |-> FALSE]}

\* ------------------------------------------------------------------ state
VARIABLES
    SYSTEM_PROMPT,          \* global_variables.SYSTEM_PROMPT
    current_model,          \* self.current_model (None until set_model)
    conversation_history,   \* self.conversation_history: sequence of ChatMessage
    is_generating,          \* self._is_generating
    thread,                 \* per worker thread: the locals of _send_message,
                            \* its position, and what it has done so far
    host,                   \* self.host
    returned,               \* the last call of get_available_models or
                            \* test_connection: what the host did and what
                            \* the call returned
    ui                      \* the UIBuilder: is_waiting_for_response,
                            \* chat_messages, _current_assistant_message_index,
                            \* the text of message_input_field

vars == <<SYSTEM_PROMPT, current_model, conversation_history, is_generating, thread,
          host, returned, ui>>

\* ChatMessage(role, content); the timestamp is informational and not modelled.
ChatMessage(role, content) == [role |-> role, content |-> content]

\* ChatMessage.to_dict
to_dict(m) == [role |-> m.role, content |-> m.content]

\* Python truthiness of current_model: None and "" are false.
Truthy(m) == m # None /\ m # <<>>

\* A thread slot before any call used it.
IdleThread ==
    [pc |-> "idle",
     message |-> <<>>,
     response_content |-> <<>>,
     payload |-> None,
     nread |-> 0,
     \* what the thread has done (history of the turn)
     calls |-> <<>>,        \* the callback invocations, in order
     chunks |-> <<>>,       \* the non-empty message.content values received, in order
     malformed |-> FALSE,   \* a line of the stream was not a well-formed object
     closed |-> FALSE,      \* the stream ended by connection close
     done_seen |-> FALSE,   \* a line with a true done flag was read
     outcome |-> "none",    \* how the turn ended
     len0 |-> 0,            \* Len(conversation_history) when the call was made
     user_added |-> FALSE,  \* it appended the user message
     stored |-> None,       \* the assistant content it appended, if any
     requested |-> FALSE,   \* it issued the chat request
     set_generating |-> FALSE,   \* it set _is_generating to True
     cleared |-> FALSE,     \* clear_conversation ran since the call was made
     stopped |-> FALSE]     \* stop_generation ran while the turn was in flight

\* _initialize_with_system_prompt: the history the constructor and
\* clear_conversation create.
InitialHistory(prompt) ==
    IF prompt # <<>> THEN <<ChatMessage("system", prompt)>> ELSE <<>>

\* No call of get_available_models or test_connection has a result pending.
NoCall == [op |-> "none"]

\* str.rstrip("/")
RECURSIVE RStrip(_)
RStrip(text) ==
    IF text # <<>> /\ text[Len(text)] = "/"
    THEN RStrip(SubSeq(text, 1, Len(text) - 1))
    ELSE text

\* The attribute _current_assistant_message_index does not exist yet.
NoIndex == -1

\* No callback has run since the last Send.
NoWrite == [kind |-> "none", type |-> "none", placeholder |-> FALSE]

\* UIBuilder.__init__ (lines 33-59) and build_ui: not waiting, no chat
\* message, an empty input field.
InitialUI ==
    [is_waiting_for_response |-> FALSE,
     chat_messages |-> <<>>,
     index |-> NoIndex,
     input |-> <<>>,
     sends |-> 0,              \* the Send clicks accepted so far
     last_write |-> NoWrite]   \* what the last callback wrote over

Init ==
    /\ SYSTEM_PROMPT \in SystemPrompts
    /\ ui = InitialUI
    /\ host = RStrip(DEFAULT_OLLAMA_HOST)
    /\ returned = NoCall
    /\ current_model = None
    /\ conversation_history = InitialHistory(SYSTEM_PROMPT)
    /\ is_generating = FALSE
    /\ thread = [t \in Threads |-> IdleThread]

\* callback(text, is_final), seen from thread record th.
Callback(th, text, is_final) ==
    [th EXCEPT !.calls = Append(@, [text |-> text, is_final |-> is_final])]

\* The terminal callback: callback(text, True); outcome names the branch.
TerminalCallback(th, text, outcome) ==
    [Callback(th, text, TRUE) EXCEPT !.outcome = outcome]

\* ------------------------------------------------------------------ foreground
\* set_model(model_name)
set_model(model_name) ==
    /\ current_model' = model_name
    /\ UNCHANGED <<host, returned, SYSTEM_PROMPT, conversation_history, is_generating, thread>>

\* A variant of clear_conversation that empties the history and does not
\* seed the system prompt again.
clear_conversation_drops_prompt ==
    /\ conversation_history' = <<>>
    /\ thread' = [t \in Threads |->
                    IF thread[t].outcome # "forgotten" /\ thread[t].pc # "idle"
                    THEN [thread[t] EXCEPT !.cleared = TRUE]
                    ELSE thread[t]]
    /\ UNCHANGED <<host, returned, SYSTEM_PROMPT, current_model, is_generating>>

\* A variant of clear_conversation that seeds the system prompt without
\* dropping the messages: the prompt is appended to the history.
clear_conversation_appends ==
    /\ conversation_history' = conversation_history \o InitialHistory(SYSTEM_PROMPT)
    /\ thread' = [t \in Threads |->
                    IF thread[t].outcome # "forgotten" /\ thread[t].pc # "idle"
                    THEN [thread[t] EXCEPT !.cleared = TRUE]
                    ELSE thread[t]]
    /\ UNCHANGED <<host, returned, SYSTEM_PROMPT, current_model, is_generating>>

\* clear_conversation()
clear_conversation ==
    /\ conversation_history' = InitialHistory(SYSTEM_PROMPT)
    /\ thread' = [t \in Threads |->
                    IF thread[t].outcome # "forgotten" /\ thread[t].pc # "idle"
                    THEN [thread[t] EXCEPT !.cleared = TRUE]
                    ELSE thread[t]]
    /\ UNCHANGED <<host, returned, SYSTEM_PROMPT, current_model, is_generating>>

\* The host is assigned directly: self.chat_service.host = new_host.rstrip("/")
\* (ui_builder.py, _on_host_changed).
set_host(new_host) ==
    /\ host' = RStrip(new_host)
    /\ UNCHANGED <<returned, SYSTEM_PROMPT, current_model, conversation_history,
                   is_generating, thread>>

\* The turns that have set _is_generating and not yet delivered their
\* terminal callback take note of a stop_generation.
NoteStop ==
    [t \in Threads |->
        IF thread[t].set_generating /\ thread[t].outcome = "none"
        THEN [thread[t] EXCEPT !.stopped = TRUE]
        ELSE thread[t]]

\* A variant of stop_generation that ends the workers in flight, which then
\* deliver nothing more.
stop_generation_aborts ==
    /\ is_generating' = FALSE
    /\ thread' = [t \in Threads |->
                    IF thread[t].set_generating /\ thread[t].outcome = "none"
                    THEN [thread[t] EXCEPT !.stopped = TRUE, !.pc = "done"]
                    ELSE thread[t]]
    /\ UNCHANGED <<host, returned, SYSTEM_PROMPT, current_model, conversation_history>>

\* stop_generation()
stop_generation ==
    /\ is_generating' = FALSE
    /\ thread' = NoteStop
    /\ UNCHANGED <<host, returned, SYSTEM_PROMPT, current_model, conversation_history>>

\* What remains of a turn whose terminal callback was delivered once a later
\* call is made: its position (the finally block may still be pending); the
\* record of what it did is dropped.
Forget(th) ==
    IF th.pc \in {"finally", "done"}
    THEN [IdleThread EXCEPT !.pc = th.pc, !.outcome = "forgotten"]
    ELSE th

\* The slot the next thread takes: the first one that is free.
FreeSlot(t) ==
    /\ thread[t].pc \in {"idle", "done"}
    /\ \A u \in Threads : thread[u].pc \in {"idle", "done"} => ~(u < t) \/ u = t

\* A variant of send_message_sync that rejects a call made while
\* _is_generating is set: the callback gets an error and no worker runs.
send_message_sync_rejects(t, message) ==
    /\ FreeSlot(t)
    /\ Len(conversation_history) < MaxHistory
    /\ thread' = [u \in Threads |->
                    IF u # t THEN Forget(thread[u])
                    ELSE IF is_generating
                    THEN [TerminalCallback([IdleThread EXCEPT
                                                !.message = message,
                                                !.len0 = Len(conversation_history)],
                                           ErrStreaming(<<"b", "u", "s", "y">>),
                                           "rejected")
                            EXCEPT !.pc = "done"]
                    ELSE [IdleThread EXCEPT !.pc = "start",
                                            !.message = message,
                                            !.len0 = Len(conversation_history)]]
    /\ UNCHANGED <<host, returned, SYSTEM_PROMPT, current_model, conversation_history, is_generating>>

\* send_message_sync(message, callback): creates and starts the thread.
send_message_sync(t, message) ==
    /\ FreeSlot(t)
    /\ Len(conversation_history) < MaxHistory
    /\ thread' = [u \in Threads |->
                    IF u = t
                    THEN [IdleThread EXCEPT !.pc = "start",
                                            !.message = message,
                                            !.len0 = Len(conversation_history)]
                    ELSE Forget(thread[u])]
    /\ UNCHANGED <<host, returned, SYSTEM_PROMPT, current_model, conversation_history, is_generating>>

\* ------------------------------------------------------------------ worker
\* A variant of CheckModel that tests the model after the user message is
\* stored: lines 127-129 moved below line 132.
CheckModelAfterAdd(t) ==
    /\ thread[t].pc = "start"
    /\ conversation_history' = Append(conversation_history, ChatMessage("user", thread[t].message))
    /\ IF ~Truthy(current_model)
       THEN thread' = [thread EXCEPT ![t] =
                [TerminalCallback([@ EXCEPT !.user_added = TRUE], ErrNoModel, "no_model")
                    EXCEPT !.pc = "done"]]
       ELSE thread' = [thread EXCEPT ![t].pc = "build", ![t].user_added = TRUE]
    /\ UNCHANGED <<host, returned, SYSTEM_PROMPT, current_model, is_generating>>

\* Lines 127-129: no model selected: the terminal error callback, and return
\* (the return is outside the inner try: its finally does not run).
CheckModel(t) ==
    /\ thread[t].pc = "start"
    /\ IF ~Truthy(current_model)
       THEN thread' = [thread EXCEPT ![t] =
                [TerminalCallback(@, ErrNoModel, "no_model") EXCEPT !.pc = "done"]]
       ELSE thread' = [thread EXCEPT ![t].pc = "add_user"]
    /\ UNCHANGED <<host, returned, SYSTEM_PROMPT, current_model, conversation_history, is_generating>>

\* Line 132: self.add_message("user", message)
AddUserMessage(t) ==
    /\ thread[t].pc = "add_user"
    /\ conversation_history' = Append(conversation_history, ChatMessage("user", thread[t].message))
    /\ thread' = [thread EXCEPT ![t].pc = "build", ![t].user_added = TRUE]
    /\ UNCHANGED <<host, returned, SYSTEM_PROMPT, current_model, is_generating>>

\* A variant of BuildPayload that sends the newest message only.
BuildPayloadLastOnly(t) ==
    /\ thread[t].pc = "build"
    /\ thread' = [thread EXCEPT
            ![t].pc = "set_generating",
            ![t].payload =
                [model |-> current_model,
                 messages |-> IF conversation_history = <<>> THEN <<>>
                              ELSE <<to_dict(conversation_history[Len(conversation_history)])>>,
                 stream |-> TRUE]]
    /\ UNCHANGED <<host, returned, SYSTEM_PROMPT, current_model, conversation_history, is_generating>>

\* Lines 135-140: the request payload.
BuildPayload(t) ==
    /\ thread[t].pc = "build"
    /\ thread' = [thread EXCEPT
            ![t].pc = "set_generating",
            ![t].payload =
                [model |-> current_model,
                 messages |-> [i \in 1..Len(conversation_history) |->
                                  to_dict(conversation_history[i])],
                 stream |-> TRUE]]
    /\ UNCHANGED <<host, returned, SYSTEM_PROMPT, current_model, conversation_history, is_generating>>

\* Line 141: self._is_generating = True
SetGenerating(t) ==
    /\ thread[t].pc = "set_generating"
    /\ is_generating' = TRUE
    /\ thread' = [thread EXCEPT ![t].pc = "request", ![t].set_generating = TRUE]
    /\ UNCHANGED <<host, returned, SYSTEM_PROMPT, current_model, conversation_history>>

\* Lines 143-154, connection failure: conn.request or getresponse raises;
\* lines 179-182 deliver the streaming error.
RequestFails(t) ==
    /\ thread[t].pc = "request"
    /\ \E e \in TransportErrors :
         thread' = [thread EXCEPT ![t] =
            [TerminalCallback([@ EXCEPT !.requested = TRUE, !.payload = None],
                              ErrStreaming(e), "streaming_error")
                EXCEPT !.pc = "finally"]]
    /\ UNCHANGED <<host, returned, SYSTEM_PROMPT, current_model, conversation_history, is_generating>>

\* A variant of RequestAnswered without the return of line 157: after the
\* status error it goes on to read the stream.
RequestAnsweredNoReturn(t) ==
    /\ thread[t].pc = "request"
    /\ \E status \in Statuses :
         IF status # 200
         THEN thread' = [thread EXCEPT ![t] =
                [TerminalCallback([@ EXCEPT !.requested = TRUE, !.payload = None],
                                  ErrStatus(status), "status_error")
                    EXCEPT !.pc = "read"]]
         ELSE thread' = [thread EXCEPT ![t].pc = "read", ![t].requested = TRUE,
                                       ![t].payload = None]
    /\ UNCHANGED <<host, returned, SYSTEM_PROMPT, current_model, conversation_history, is_generating>>

\* Lines 153-157: the response arrives; a status other than 200 is the
\* terminal status error.
RequestAnswered(t) ==
    /\ thread[t].pc = "request"
    /\ \E status \in Statuses :
         IF status # 200
         THEN thread' = [thread EXCEPT ![t] =
                [TerminalCallback([@ EXCEPT !.requested = TRUE, !.payload = None],
                                  ErrStatus(status), "status_error")
                    EXCEPT !.pc = "finally"]]
         ELSE thread' = [thread EXCEPT ![t].pc = "read", ![t].requested = TRUE,
                                       ![t].payload = None]
    /\ UNCHANGED <<host, returned, SYSTEM_PROMPT, current_model, conversation_history, is_generating>>

\* A variant of ProcessLine that keeps only the latest chunk: line 169 with =
\* in place of +=.
ProcessLineOverwrite(th, l) ==
    LET got == [th EXCEPT
                    !.nread = @ + 1,
                    !.malformed = @ \/ l.kind # "object",
                    !.done_seen = @ \/ (l.kind = "object" /\ l.done),
                    !.chunks = IF l.kind = "object" /\ l.hasMessage /\ l.content # <<>>
                               THEN Append(@, l.content) ELSE @]
    IN
    CASE l.kind = "malformed" -> got
      [] l.kind \in {"non_object", "bad_message"} ->
            [TerminalCallback(got, ErrStreaming(ShapeError), "streaming_error")
                EXCEPT !.pc = "finally"]
      [] OTHER ->
            LET acc == IF l.hasMessage /\ l.content # <<>>
                       THEN Callback([got EXCEPT !.response_content = l.content],
                                     l.content, FALSE)
                       ELSE got
            IN  IF l.done THEN [acc EXCEPT !.pc = "finish"] ELSE acc

\* A variant of ProcessLine without the break of line 172: the loop goes on
\* after a done line.
ProcessLineNoBreak(th, l) ==
    LET got == [th EXCEPT
                    !.nread = @ + 1,
                    !.malformed = @ \/ l.kind # "object",
                    !.done_seen = @ \/ (l.kind = "object" /\ l.done),
                    !.chunks = IF l.kind = "object" /\ l.hasMessage /\ l.content # <<>>
                               THEN Append(@, l.content) ELSE @]
    IN
    CASE l.kind = "malformed" -> got
      [] l.kind \in {"non_object", "bad_message"} ->
            [TerminalCallback(got, ErrStreaming(ShapeError), "streaming_error")
                EXCEPT !.pc = "finally"]
      [] OTHER ->
            IF l.hasMessage /\ l.content # <<>>
            THEN Callback([got EXCEPT !.response_content = @ \o l.content],
                          got.response_content \o l.content, FALSE)
            ELSE got

\* Lines 159-172, one iteration of `for line in resp` on line l.
ProcessLine(th, l) ==
    LET got == [th EXCEPT
                    !.nread = @ + 1,
                    !.malformed = @ \/ l.kind # "object",
                    !.done_seen = @ \/ (l.kind = "object" /\ l.done),
                    !.chunks = IF l.kind = "object" /\ l.hasMessage /\ l.content # <<>>
                               THEN Append(@, l.content) ELSE @]
    IN
    CASE l.kind = "malformed" -> got
      [] l.kind \in {"non_object", "bad_message"} ->
            [TerminalCallback(got, ErrStreaming(ShapeError), "streaming_error")
                EXCEPT !.pc = "finally"]
      [] OTHER ->
            LET acc == IF l.hasMessage /\ l.content # <<>>
                       THEN Callback([got EXCEPT !.response_content = @ \o l.content],
                                     got.response_content \o l.content, FALSE)
                       ELSE got
            IN  IF l.done THEN [acc EXCEPT !.pc = "finish"] ELSE acc

ReadLineFrom(t, lines, max) ==
    /\ thread[t].pc = "read"
    /\ thread[t].nread < max
    /\ \E l \in lines : thread' = [thread EXCEPT ![t] = ProcessLine(@, l)]
    /\ UNCHANGED <<host, returned, SYSTEM_PROMPT, current_model, conversation_history, is_generating>>

\* The server sends any line of Lines.
ReadLine(t) == ReadLineFrom(t, Lines, MaxLines)

\* The server sends a line of ShortLines, on a stream of MaxShortLines lines.
ReadShortLine(t) == ReadLineFrom(t, ShortLines, MaxShortLines)

\* Line 159: the iteration ends because the connection closed.
StreamCloses(t) ==
    /\ thread[t].pc = "read"
    /\ thread' = [thread EXCEPT ![t].pc = "finish", ![t].closed = TRUE]
    /\ UNCHANGED <<host, returned, SYSTEM_PROMPT, current_model, conversation_history, is_generating>>

\* A variant of ReadFails that saves the text received so far as the
\* assistant message before it reports the failure.
ReadFailsStoresPartial(t) ==
    /\ thread[t].pc = "read"
    /\ conversation_history' =
          IF thread[t].response_content # <<>>
          THEN Append(conversation_history,
                      ChatMessage("assistant", thread[t].response_content))
          ELSE conversation_history
    /\ \E e \in TransportErrors :
         thread' = [thread EXCEPT ![t] =
            [TerminalCallback(@, ErrStreaming(e), "streaming_error") EXCEPT !.pc = "finally"]]
    /\ UNCHANGED <<host, returned, SYSTEM_PROMPT, current_model, is_generating>>

\* Line 159: reading the stream raises (reset, timeout); lines 179-182.
ReadFails(t) ==
    /\ thread[t].pc = "read"
    /\ \E e \in TransportErrors :
         thread' = [thread EXCEPT ![t] =
            [TerminalCallback(@, ErrStreaming(e), "streaming_error") EXCEPT !.pc = "finally"]]
    /\ UNCHANGED <<host, returned, SYSTEM_PROMPT, current_model, conversation_history, is_generating>>

\* A variant of Finish without line 175: the reply is reported, not stored.
FinishWithoutStore(t) ==
    /\ thread[t].pc = "finish"
    /\ IF thread[t].response_content # <<>>
       THEN thread' = [thread EXCEPT ![t].pc = "final_callback"]
       ELSE thread' = [thread EXCEPT ![t] =
                  [TerminalCallback(@, ErrEmpty, "empty") EXCEPT !.pc = "finally"]]
    /\ UNCHANGED <<host, returned, SYSTEM_PROMPT, current_model, conversation_history, is_generating>>

\* A variant of Finish that stores the failure text of an empty response as
\* an assistant message.
FinishStoresFailure(t) ==
    /\ thread[t].pc = "finish"
    /\ IF thread[t].response_content # <<>>
       THEN /\ conversation_history' =
                  Append(conversation_history,
                         ChatMessage("assistant", thread[t].response_content))
            /\ thread' = [thread EXCEPT
                            ![t].pc = "final_callback",
                            ![t].stored = thread[t].response_content]
       ELSE /\ conversation_history' =
                  Append(conversation_history, ChatMessage("assistant", ErrEmpty))
            /\ thread' = [thread EXCEPT ![t] =
                  [TerminalCallback(@, ErrEmpty, "empty") EXCEPT !.pc = "finally"]]
    /\ UNCHANGED <<host, returned, SYSTEM_PROMPT, current_model, is_generating>>

\* A variant of Finish that puts the reply in the place of the last message
\* of the history.
FinishReplacesLast(t) ==
    /\ thread[t].pc = "finish"
    /\ IF thread[t].response_content # <<>>
       THEN /\ conversation_history' =
                  IF conversation_history = <<>>
                  THEN <<ChatMessage("assistant", thread[t].response_content)>>
                  ELSE [conversation_history EXCEPT ![Len(conversation_history)] =
                            ChatMessage("assistant", thread[t].response_content)]
            /\ thread' = [thread EXCEPT
                            ![t].pc = "final_callback",
                            ![t].stored = thread[t].response_content]
       ELSE /\ thread' = [thread EXCEPT ![t] =
                  [TerminalCallback(@, ErrEmpty, "empty") EXCEPT !.pc = "finally"]]
            /\ UNCHANGED conversation_history
    /\ UNCHANGED <<host, returned, SYSTEM_PROMPT, current_model, is_generating>>

\* Lines 174-178 after the loop: store the assistant message, or report the
\* empty response.
Finish(t) ==
    /\ thread[t].pc = "finish"
    /\ IF thread[t].response_content # <<>>
       THEN /\ conversation_history' =
                  Append(conversation_history,
                         ChatMessage("assistant", thread[t].response_content))
            /\ thread' = [thread EXCEPT
                            ![t].pc = "final_callback",
                            ![t].stored = thread[t].response_content]
       ELSE /\ thread' = [thread EXCEPT ![t] =
                  [TerminalCallback(@, ErrEmpty, "empty") EXCEPT !.pc = "finally"]]
            /\ UNCHANGED conversation_history
    /\ UNCHANGED <<host, returned, SYSTEM_PROMPT, current_model, is_generating>>

\* Line 176: callback(response_content, True)
FinalCallback(t) ==
    /\ thread[t].pc = "final_callback"
    /\ thread' = [thread EXCEPT ![t] =
            [TerminalCallback(@, thread[t].response_content, "success")
                EXCEPT !.pc = "finally"]]
    /\ UNCHANGED <<host, returned, SYSTEM_PROMPT, current_model, conversation_history, is_generating>>

\* Lines 183-184: finally: self._is_generating = False
Finally(t) ==
    /\ thread[t].pc = "finally"
    /\ is_generating' = FALSE
    /\ thread' = [thread EXCEPT ![t].pc = "done"]
    /\ UNCHANGED <<host, returned, SYSTEM_PROMPT, current_model, conversation_history>>

\* One step of the worker thread t (_send_message).
_send_message(t) ==
    \/ CheckModel(t)
    \/ AddUserMessage(t)
    \/ BuildPayload(t)
    \/ SetGenerating(t)
    \/ RequestFails(t)
    \/ RequestAnswered(t)
    \/ ReadLine(t)
    \/ StreamCloses(t)
    \/ ReadFails(t)
    \/ Finish(t)
    \/ FinalCallback(t)
    \/ Finally(t)

\* One step of the worker thread t on a short stream.
_send_message_short(t) ==
    \/ CheckModel(t)
    \/ AddUserMessage(t)
    \/ BuildPayload(t)
    \/ SetGenerating(t)
    \/ RequestFails(t)
    \/ RequestAnswered(t)
    \/ ReadShortLine(t)
    \/ StreamCloses(t)
    \/ ReadFails(t)
    \/ Finish(t)
    \/ FinalCallback(t)
    \/ Finally(t)

\* ------------------------------------------------------------------ metadata
\* The fallback list of get_available_models: ["llama3.2", "llama2", "mistral"]
FallbackModels ==
    << <<"l", "l", "a", "m", "a", "3", ".", "2">>,
       <<"l", "l", "a", "m", "a", "2">>,
       <<"m", "i", "s", "t", "r", "a", "l">> >>

\* One entry of the models array: an object with or without a name.
ModelEntries ==
    [hasName : {TRUE}, name : {<<"a">>, <<"b">>}]
    \cup [hasName : {FALSE}, name : {<<>>}]

ModelLists == UNION {[1..n -> ModelEntries] : n \in 0..MaxModels}

\* The body of an answer to GET /api/tags, by what lines 98-99 do with it:
\*   read_fails       response.read() raises (connection reset)
\*   not_utf8         .decode() raises UnicodeDecodeError
\*   not_json         json.loads raises JSONDecodeError
\*   non_object       valid JSON that is not an object: data.get raises
\*   no_models        an object without the models key
\*   models_not_list  an object whose models is null or a number
\*   models           an object whose models is the array `models`
TagsBodies ==
    [kind : {"read_fails", "not_utf8", "not_json", "non_object", "no_models",
             "models_not_list"},
     models : {<<>>}]
    \cup [kind : {"models"}, models : ModelLists]

\* What the host does with GET {host}/api/tags:
\*   http_error  urlopen raises HTTPError (a 4xx or 5xx status)
\*   url_error   urlopen raises URLError (no connection)
\*   timeout     the socket times out while the answer is read
\*   answer      an answer with a status below 400 and a body
TagsResponses ==
    [kind : {"http_error"}, status : {404, 500}, body : {[kind |-> "no_models", models |-> <<>>]}]
    \cup [kind : {"url_error", "timeout"}, status : {0}, body : {[kind |-> "no_models", models |-> <<>>]}]
    \cup [kind : {"answer"}, status : {200, 204}, body : TagsBodies]

\* The end of a call or of a block: a value returned, or an exception raised.
Returns(value) == [raised |-> "none", value |-> value]
Raises(exception) == [raised |-> exception, value |-> <<>>]

\* What urlopen raises on response resp ("none": it answers).
UrlopenRaises(resp) ==
    CASE resp.kind = "http_error" -> "HTTPError"
      [] resp.kind = "url_error" -> "URLError"
      [] resp.kind = "timeout" -> "timeout"
      [] OTHER -> "none"

\* Line 99: [model["name"] for model in models]
RECURSIVE Names(_)
Names(models) ==
    IF models = <<>> THEN <<>>
    ELSE <<models[1].name>> \o Names(SubSeq(models, 2, Len(models)))

\* Lines 98-101: the body of the answer is parsed and the names returned.
ParseModels(body) ==
    CASE body.kind = "read_fails" -> Raises("OSError")
      [] body.kind = "not_utf8" -> Raises("UnicodeDecodeError")
      [] body.kind = "not_json" -> Raises("JSONDecodeError")
      [] body.kind = "non_object" -> Raises("AttributeError")
      [] body.kind = "no_models" -> Returns(<<>>)
      [] body.kind = "models_not_list" -> Raises("TypeError")
      [] OTHER ->
            IF \E i \in 1..Len(body.models) : ~body.models[i].hasName
            THEN Raises("KeyError")
            ELSE Returns(Names(body.models))

\* Lines 90-104: the inner try block of get_available_models.
ListModelsTry(resp) ==
    IF UrlopenRaises(resp) # "none" THEN Raises(UrlopenRaises(resp))
    ELSE IF resp.status = 200 THEN ParseModels(resp.body)
    ELSE Returns(FallbackModels)

\* A variant of GetAvailableModels without the handler of lines 116-118: an
\* exception the inner handlers do not name leaves the call.
GetAvailableModelsInnerOnly(resp) ==
    LET r == ListModelsTry(resp) IN
    IF r.raised \in {"HTTPError", "URLError", "JSONDecodeError"}
    THEN Returns(FallbackModels)
    ELSE r

\* A variant of GetAvailableModels that takes an empty listing for a failure.
GetAvailableModelsEmptyFallback(resp) ==
    LET r == ListModelsTry(resp) IN
    IF r.raised # "none" \/ r.value = <<>>
    THEN Returns(FallbackModels)
    ELSE r

\* get_available_models, lines 81-118: the inner handlers (106-114) catch
\* HTTPError, URLError and JSONDecodeError, the outer one (116-118) every
\* other Exception.
GetAvailableModels(resp) ==
    LET r == ListModelsTry(resp) IN
    IF r.raised \in {"HTTPError", "URLError", "JSONDecodeError"}
    THEN Returns(FallbackModels)
    ELSE IF r.raised # "none"
    THEN Returns(FallbackModels)
    ELSE r

\* Lines 210-221: the inner try block of test_connection; the body of the
\* answer is not read.
TestConnectionTry(resp) ==
    IF UrlopenRaises(resp) # "none" THEN Raises(UrlopenRaises(resp))
    ELSE Returns(resp.status = 200)

\* A variant of TestConnection that takes every answer below 300 for a
\* success.
TestConnectionAnySuccess(resp) ==
    LET r == TestConnectionTry(resp) IN
    IF r.raised # "none" THEN Returns(FALSE) ELSE Returns(resp.status < 300)

\* test_connection, lines 202-235: every exception is caught (223-231).
TestConnection(resp) ==
    LET r == TestConnectionTry(resp) IN
    IF r.raised \in {"HTTPError", "URLError"}
    THEN Returns(FALSE)
    ELSE IF r.raised # "none"
    THEN Returns(FALSE)
    ELSE r

\* The URL of the metadata request: f"{self.host}/api/tags"
TagsUrl == host \o <<"/", "a", "p", "i", "/", "t", "a", "g", "s">>

\* await get_available_models(), against a host that does resp.
get_available_models(resp) ==
    /\ returned' = [op |-> "get_available_models", url |-> TagsUrl,
                    response |-> resp, result |-> GetAvailableModels(resp)]
    /\ UNCHANGED <<host, SYSTEM_PROMPT, current_model, conversation_history,
                   is_generating, thread>>

\* await test_connection(), against a host that does resp.
test_connection(resp) ==
    /\ returned' = [op |-> "test_connection", url |-> TagsUrl,
                    response |-> resp, result |-> TestConnection(resp)]
    /\ UNCHANGED <<host, SYSTEM_PROMPT, current_model, conversation_history,
                   is_generating, thread>>

\* The caller has used the result of the call (ui_builder.py, _test_connection
\* and _load_models).
UseResult ==
    /\ returned.op # "none"
    /\ returned' = NoCall
    /\ UNCHANGED <<host, SYSTEM_PROMPT, current_model, conversation_history,
                   is_generating, thread>>

\* ------------------------------------------------------------------ callers
\* The terminal callback of every earlier call has been delivered.
PriorTurnsTerminated ==
    \A u \in Threads : thread[u].pc \in {"idle", "finally", "done"}

\* A caller that issues each send_message_sync after the previous call's
\* terminal callback, as the UI does through is_waiting_for_response
\* (ui_builder.py, _on_send_message / _on_message_response), and calls
\* set_model and clear_conversation at any time.
Next ==
    \/ \E t \in Threads, m \in Messages :
          PriorTurnsTerminated /\ send_message_sync(t, m) /\ UNCHANGED ui
    \/ \E name \in ModelNames : set_model(name) /\ UNCHANGED ui
    \/ clear_conversation /\ UNCHANGED ui
    \/ \E t \in Threads : _send_message(t) /\ UNCHANGED ui

Spec == Init /\ [][Next]_vars

\* The same caller, who also calls stop_generation at any time.
NextStop ==
    \/ Next
    \/ stop_generation /\ UNCHANGED ui

SpecStop == Init /\ [][NextStop]_vars

\* A caller that does not wait for the terminal callback: send_message_sync,
\* set_model, clear_conversation and stop_generation in any interleaving
\* with the workers.  Every thread of Threads runs one turn.
NextConcurrent ==
    \/ \E t \in Threads, m \in Messages :
          thread[t].pc = "idle" /\ send_message_sync(t, m) /\ UNCHANGED ui
    \/ \E name \in ModelNames : set_model(name) /\ UNCHANGED ui
    \/ clear_conversation /\ UNCHANGED ui
    \/ stop_generation /\ UNCHANGED ui
    \/ \E t \in Threads : _send_message_short(t) /\ UNCHANGED ui

SpecConcurrent == Init /\ [][NextConcurrent]_vars

\* No worker is running.
Quiescent == \A u \in Threads : thread[u].pc \in {"idle", "done"}

\* The caller of Spec, who also changes the host, and between turns asks for
\* the model listing or tests the connection, using each result before the
\* next call.
NextSession ==
    \/ /\ returned.op = "none"
       /\ UNCHANGED ui
       /\ \/ \E t \in Threads, m \in Messages : PriorTurnsTerminated /\ send_message_sync(t, m)
          \/ \E name \in ModelNames : set_model(name)
          \/ clear_conversation
          \/ \E new_host \in HostInputs : set_host(new_host)
          \/ \E t \in Threads : _send_message_short(t)
    \/ /\ returned.op = "none"
       /\ Quiescent
       /\ UNCHANGED ui
       /\ \E resp \in TagsResponses :
            get_available_models(resp) \/ test_connection(resp)
    \/ UseResult /\ UNCHANGED ui

SpecSession == Init /\ [][NextSession]_vars

\* ------------------------------------------------------------------ UI
\* DEFAULT_MODEL (global_variables.py)
DEFAULT_MODEL == <<"l", "l", "a", "m", "a", "3", ".", "2">>

\* What the user types into the message field.
InputTexts == {<<"h", "i", " ">>}

Whitespace == {" ", "\n", "\t"}

\* str.strip()
RECURSIVE Strip(_)
Strip(text) ==
    IF text = <<>> THEN text
    ELSE IF text[1] \in Whitespace THEN Strip(SubSeq(text, 2, Len(text)))
    ELSE IF text[Len(text)] \in Whitespace THEN Strip(SubSeq(text, 1, Len(text) - 1))
    ELSE text

\* _add_message_to_chat(sender, message, message_type) on the list chat: the
\* entry appended (lines 319-323).  Of an entry the type is kept; its text
\* and its widget are what the panel shows.  placeholder: the entry is the
\* assistant placeholder the Send of the current turn created.
_add_message_to_chat(chat, message_type, placeholder) ==
    Append(chat, [type |-> message_type, placeholder |-> placeholder])

\* _update_assistant_response and the final branch of _on_message_response
\* (lines 553-567, 594-609): the entry at _current_assistant_message_index,
\* if the list has one, is overwritten with the response.
WriteResponse(u) ==
    IF u.index # NoIndex /\ u.index < Len(u.chat_messages)
    THEN [u EXCEPT
            !.last_write = [kind |-> "write",
                            type |-> u.chat_messages[u.index + 1].type,
                            placeholder |-> u.chat_messages[u.index + 1].placeholder]]
    ELSE [u EXCEPT !.last_write = [kind |-> "skip", type |-> "none", placeholder |-> FALSE]]

\* A variant of _on_message_response that resets the flag on every callback,
\* partial or final.
_on_message_response_any(u, is_final) ==
    WriteResponse([u EXCEPT !.is_waiting_for_response = FALSE])

\* A variant of _on_message_response that resets the flag only when the
\* entry of the turn is still in the list.
_on_message_response_if_entry(u, is_final) ==
    IF is_final /\ u.index # NoIndex /\ u.index < Len(u.chat_messages)
    THEN WriteResponse([u EXCEPT !.is_waiting_for_response = FALSE])
    ELSE WriteResponse(u)

\* _on_message_response(response, is_final), lines 546-570.
_on_message_response(u, is_final) ==
    IF is_final
    THEN WriteResponse([u EXCEPT !.is_waiting_for_response = FALSE])
    ELSE WriteResponse(u)

\* The state of the service.
service_vars == <<SYSTEM_PROMPT, current_model, conversation_history, is_generating,
                  thread, host, returned>>

\* The user edits the message field (while a further accepted Send is within
\* MaxSends).
TypeMessage(text) ==
    /\ ui.input # text
    /\ ui.sends < MaxSends
    /\ ui' = [ui EXCEPT !.input = text]
    /\ UNCHANGED service_vars

\* A Send click that is turned down: a system notice is added to the chat.
Notice ==
    /\ Len(ui.chat_messages) < MaxChat
    /\ ui' = [ui EXCEPT !.chat_messages = _add_message_to_chat(@, "system", FALSE)]
    /\ UNCHANGED service_vars

\* Lines 514-525 of _on_send_message: the field is emptied, the user message
\* and the placeholder are added, the flag is set, the turn is started.
AcceptSend(message) ==
    /\ Len(ui.chat_messages) + 2 <= MaxChat
    /\ ui.sends < MaxSends
    /\ \E t \in Threads : send_message_sync(t, message)
    /\ ui' = [ui EXCEPT
            !.input = <<>>,
            !.sends = @ + 1,
            !.index = Len(ui.chat_messages) + 1,
            !.chat_messages =
                _add_message_to_chat(
                    _add_message_to_chat(
                        [i \in 1..Len(ui.chat_messages) |->
                            [ui.chat_messages[i] EXCEPT !.placeholder = FALSE]],
                        "user", FALSE),
                    "assistant", TRUE),
            !.is_waiting_for_response = TRUE,
            !.last_write = NoWrite]

\* A variant of _on_send_message that empties the message field before it
\* validates the click.
_on_send_message_clears_first ==
    LET message == Strip(ui.input) IN
    IF ui.is_waiting_for_response \/ message = <<>> \/ ~Truthy(current_model)
    THEN /\ Len(ui.chat_messages) < MaxChat
         /\ ui' = [ui EXCEPT !.input = <<>>,
                             !.chat_messages = _add_message_to_chat(@, "system", FALSE)]
         /\ UNCHANGED service_vars
    ELSE AcceptSend(message)

\* _on_send_message, lines 491-530 (the message field exists once the UI is
\* built).
_on_send_message ==
    LET message == Strip(ui.input) IN
    IF ui.is_waiting_for_response THEN Notice
    ELSE IF message = <<>> THEN Notice
    ELSE IF ~Truthy(current_model) THEN Notice
    ELSE AcceptSend(message)

\* _on_clear_chat, lines 532-544: the history and the chat list are cleared
\* (the welcome text is a label, not an entry of chat_messages).
_on_clear_chat ==
    /\ clear_conversation
    /\ ui' = [ui EXCEPT !.chat_messages = <<>>]

\* _update_chat_display, lines 611-626: the chat list rebuilt from the
\* history, without the system messages; kept as it is when the history is
\* empty.
RECURSIVE DisplayOf(_)
DisplayOf(history) ==
    IF history = <<>> THEN <<>>
    ELSE LET m == history[Len(history)]
             before == DisplayOf(SubSeq(history, 1, Len(history) - 1))
         IN  CASE m.role = "user" -> _add_message_to_chat(before, "user", FALSE)
               [] m.role = "assistant" -> _add_message_to_chat(before, "assistant", FALSE)
               [] OTHER -> before

_update_chat_display(chat) ==
    IF conversation_history' = <<>> THEN chat ELSE DisplayOf(conversation_history')

\* _on_model_selection(model_name), lines 479-484.
_on_model_selection(model_name) ==
    /\ set_model(model_name)
    /\ LET chat == _add_message_to_chat(
                       _add_message_to_chat(_update_chat_display(ui.chat_messages),
                                            "system", FALSE),
                       "system", FALSE)
       IN  /\ Len(chat) <= MaxChat
           /\ ui' = [ui EXCEPT !.chat_messages = chat]

\* One step of worker t under the UI: the callback it calls, if any, is
\* _on_message_response.
UIWorker(t) ==
    /\ _send_message_short(t)
    /\ ui' = IF Len(thread'[t].calls) > Len(thread[t].calls)
             THEN LET c == thread'[t].calls[Len(thread'[t].calls)]
                  IN  _on_message_response(ui, c.is_final)
             ELSE ui

\* UIBuilder.__init__, lines 33-59: the service is constructed and the default
\* model set.
InitUI ==
    /\ SYSTEM_PROMPT \in SystemPrompts
    /\ ui = InitialUI
    /\ host = RStrip(DEFAULT_OLLAMA_HOST)
    /\ returned = NoCall
    /\ current_model = DEFAULT_MODEL
    /\ conversation_history = InitialHistory(SYSTEM_PROMPT)
    /\ is_generating = FALSE
    /\ thread = [t \in Threads |-> IdleThread]

\* The user at the panel: typing, Send, Clear and model selection at any
\* time, and the workers.
NextUI ==
    \/ \E text \in InputTexts : TypeMessage(text)
    \/ _on_send_message
    \/ _on_clear_chat
    \/ \E name \in ModelNames : _on_model_selection(name)
    \/ \E t \in Threads : UIWorker(t)

SpecUI == InitUI /\ [][NextUI]_vars

\* The workers are threads the scheduler runs, and every wait on the server
\* ends (answer, failure or timeout).
SpecUIFair == SpecUI /\ \A t \in Threads : WF_vars(UIWorker(t))

\* ------------------------------------------------------------------ claims
\* The turns whose terminal callback was delivered and whose record is kept.
Ended(t) == thread[t].outcome \notin {"none", "forgotten"}

Partials(th) == SelectSeq(th.calls, LAMBDA c : ~c.is_final)
Finals(th) == SelectSeq(th.calls, LAMBDA c : c.is_final)

RECURSIVE Concat(_)
Concat(texts) ==
    IF texts = <<>> THEN <<>> ELSE Concat(SubSeq(texts, 1, Len(texts) - 1)) \o texts[Len(texts)]

LastMessage == conversation_history[Len(conversation_history)]

\* C1: every call of send_message_sync has at most one callback invocation
\* with is_final = True, no invocation follows it, and a worker that has
\* reached its end (or its finally block) has delivered exactly one.
C1_TerminalExactlyOnceAndLast ==
    \A t \in Threads :
        /\ Len(Finals(thread[t])) <= 1
        /\ \A i \in 1..Len(thread[t].calls) :
              thread[t].calls[i].is_final => i = Len(thread[t].calls)
        /\ (thread[t].pc \in {"finally", "done"} /\ thread[t].outcome # "forgotten")
              => Len(Finals(thread[t])) = 1

\* A turn ended after a partial callback and its terminal callback.
C1_Witness ==
    \E t \in Threads :
        /\ thread[t].pc = "done"
        /\ Len(thread[t].calls) >= 2
        /\ thread[t].calls[Len(thread[t].calls)].is_final

Growth(t) == Len(conversation_history) - thread[t].len0

\* C3 as stated: 2 for a successful turn, 1 for every failed turn.
C3_GrowthTwoOrOne ==
    \A t \in Threads :
        (Ended(t) /\ ~thread[t].cleared)
        => Growth(t) = IF thread[t].outcome = "success" THEN 2 ELSE 1

\* C3 (amended): with calls made after the previous terminal callback and no
\* clear_conversation in between, the history grows by 2 over a successful
\* turn (user, assistant), by 1 over a turn that fails after the model check
\* (user only), and by 0 over a turn that fails because no model is selected.
C3_GrowthTwoOneOrZero ==
    \A t \in Threads :
        (Ended(t) /\ ~thread[t].cleared)
        => /\ Growth(t) = CASE thread[t].outcome = "success" -> 2
                            [] thread[t].outcome = "no_model" -> 0
                            [] OTHER -> 1
           /\ Growth(t) >= 1 =>
                conversation_history[thread[t].len0 + 1] = ChatMessage("user", thread[t].message)
           /\ Growth(t) = 2 =>
                conversation_history[thread[t].len0 + 2]
                    = ChatMessage("assistant", thread[t].response_content)

\* A successful turn has ended after a failed turn that left its user
\* message in the history.
C3_Witness ==
    \E t \in Threads :
        /\ Ended(t) /\ thread[t].outcome = "success" /\ ~thread[t].cleared
        /\ SYSTEM_PROMPT = <<>>
        /\ thread[t].len0 = 1
        /\ Growth(t) = 2

\* The reply of a turn as a stored message.
Reply(t) == ChatMessage("assistant", thread[t].response_content)

ExpectedPartials(chunks) ==
    [i \in 1..Len(chunks) |-> [text |-> Concat(SubSeq(chunks, 1, i)), is_final |-> FALSE]]

\* The stream of t was made of well-formed lines only and ended by a done
\* line, and the turn has ended.
ChunksThenDone(t) ==
    /\ Ended(t)
    /\ thread[t].outcome \in {"success", "empty"}
    /\ ~thread[t].malformed
    /\ ~thread[t].closed

\* The calls and the stored message of a turn whose stream carried chunks.
ChunksDelivered(t) ==
    /\ Partials(thread[t]) = ExpectedPartials(thread[t].chunks)
    /\ thread[t].calls =
          ExpectedPartials(thread[t].chunks)
          \o <<[text |-> Concat(thread[t].chunks), is_final |-> TRUE]>>
    /\ thread[t].stored = Concat(thread[t].chunks)
    /\ ~thread[t].cleared =>
          /\ Growth(t) = 2
          /\ LastMessage = ChatMessage("assistant", Concat(thread[t].chunks))

\* C5 as stated: for a stream of content chunks c1..cn followed by a done
\* line, the calls are the partials (c1, False) ... (c1+...+cn, False), one
\* per non-empty chunk, then (c1+...+cn, True), and one assistant message
\* with that content is stored.
C5_ChunksThenDoneDelivered ==
    \A t \in Threads : ChunksThenDone(t) => ChunksDelivered(t)

\* C5 (amended): the same for a stream with at least one non-empty chunk.
C5_NonEmptyChunksDelivered ==
    \A t \in Threads :
        (ChunksThenDone(t) /\ thread[t].chunks # <<>>) => ChunksDelivered(t)

\* A stream of two different non-empty chunks and a done line was delivered.
C5_Witness ==
    \E t \in Threads :
        /\ ChunksThenDone(t)
        /\ thread[t].chunks = << <<"S">>, <<"x">> >>
        /\ ~thread[t].cleared

\* The text of the terminal callback of an ended turn.
FinalText(t) == thread[t].calls[Len(thread[t].calls)].text

\* C6 as stated: in every ended turn, successful or failed, each partial
\* payload is a prefix of the terminal payload.
C6_PartialsPrefixOfFinal ==
    \A t \in Threads :
        Ended(t) =>
            \A i \in 1..Len(thread[t].calls) :
                ~thread[t].calls[i].is_final => IsPrefix(thread[t].calls[i].text, FinalText(t))

\* C6 (amended): in every turn that ends successfully each partial payload
\* is a prefix of the terminal payload; a turn that ends with no model, a
\* status error or an empty response has delivered no partial payload.
C6_PartialsPrefixOfReply ==
    \A t \in Threads :
        /\ (Ended(t) /\ thread[t].outcome = "success") =>
              \A i \in 1..Len(thread[t].calls) :
                  ~thread[t].calls[i].is_final
                  => IsPrefix(thread[t].calls[i].text, FinalText(t))
        /\ (Ended(t) /\ thread[t].outcome \in {"no_model", "status_error", "empty"}) =>
              Partials(thread[t]) = <<>>

\* A successful turn with two partial payloads has ended.
C6_Witness ==
    \E t \in Threads :
        /\ Ended(t)
        /\ thread[t].outcome = "success"
        /\ Len(Partials(thread[t])) = 2

\* C7: a stream that completes (done line or connection close) with nothing
\* accumulated ends the turn with the single callback
\* ("Error: Empty response from model", True) and stores no assistant
\* message: the history holds the user message of the turn and no more.
C7_EmptyResponseNotStored ==
    \A t \in Threads :
        (Ended(t) /\ thread[t].outcome \in {"success", "empty"}
                  /\ thread[t].response_content = <<>>)
        => /\ thread[t].calls = <<[text |-> ErrEmpty, is_final |-> TRUE]>>
           /\ thread[t].stored = None
           /\ ~thread[t].cleared =>
                 /\ Growth(t) = 1
                 /\ LastMessage = ChatMessage("user", thread[t].message)

\* A stream of a skipped line and a done line ended with the empty-response
\* error.
C7_Witness ==
    \E t \in Threads :
        /\ Ended(t)
        /\ thread[t].outcome = "empty"
        /\ thread[t].nread = 2
        /\ thread[t].malformed
        /\ ~thread[t].closed

ErrorPrefix == <<"E", "r", "r", "o", "r", ":", " ">>

\* The text is one of the error descriptions of _send_message.
IsErrorText(text) == IsPrefix(ErrorPrefix, text) \/ IsPrefix(ErrStreamingPrefix, text)

\* C8: a turn that meets a non-200 status, a connection failure or an
\* exception while reading the stream ends with a terminal callback that
\* carries an error description and stores no assistant message; every
\* terminal callback with an error text belongs to a turn that stored none.
C8_FailureStoresNoReply ==
    \A t \in Threads :
        Ended(t) =>
            /\ thread[t].outcome \in {"status_error", "streaming_error"} =>
                  /\ Len(Finals(thread[t])) = 1
                  /\ IsErrorText(FinalText(t))
            /\ IsErrorText(FinalText(t)) =>
                  /\ thread[t].stored = None
                  /\ ~thread[t].cleared =>
                        /\ Growth(t) <= 1
                        /\ \A i \in (thread[t].len0 + 1)..Len(conversation_history) :
                              conversation_history[i].role # "assistant"

\* A turn failed while reading the stream, after a partial callback.
C8_Witness ==
    \E t \in Threads :
        /\ Ended(t)
        /\ thread[t].outcome = "streaming_error"
        /\ Len(Partials(thread[t])) >= 1
        /\ ~thread[t].cleared

\* C9: for every turn that set _is_generating to True, _is_generating is
\* False when the turn's terminal callback returns.
C9_FlagFalseWhenTerminalReturns ==
    [][\A t \in Threads :
          (thread[t].outcome = "none" /\ thread'[t].outcome \notin {"none", "forgotten"}
              /\ thread'[t].set_generating)
          => is_generating' = FALSE]_vars

\* The worker has issued its chat request and not yet delivered the terminal
\* callback.
InFlight(t) == thread[t].pc \in {"read", "finish", "final_callback"}

\* C10: with each send_message_sync issued after the previous terminal
\* callback and no stop_generation, _is_generating is True while a worker is
\* between its chat request and its terminal callback, and False while no
\* worker is running.
C10_FlagTrueWhileInFlight ==
    /\ \A t \in Threads : InFlight(t) => is_generating = TRUE
    /\ (\A t \in Threads : thread[t].pc \in {"idle", "done"}) => is_generating = FALSE

\* The callbacks and the stored reply of a turn that ended successfully:
\* every partial payload of the chunks received, one terminal callback with
\* the whole text, and the assistant message with that text.
FullyDelivered(t) ==
    /\ thread[t].calls =
          ExpectedPartials(thread[t].chunks)
          \o <<[text |-> Concat(thread[t].chunks), is_final |-> TRUE]>>
    /\ thread[t].stored = Concat(thread[t].chunks)
    /\ ~thread[t].cleared =>
          /\ Growth(t) = 2
          /\ LastMessage = ChatMessage("assistant", Concat(thread[t].chunks))

\* C11: stop_generation sets _is_generating to False and changes nothing
\* else; a turn that was in flight when it was called still delivers its
\* partial callbacks and exactly one terminal callback, the last call, and a
\* successful stream still stores the assistant message.
C11_StopOnlyResetsFlag ==
    /\ [][stop_generation =>
            /\ is_generating' = FALSE
            /\ UNCHANGED <<host, SYSTEM_PROMPT, current_model, conversation_history>>
            /\ \A t \in Threads :
                  [thread'[t] EXCEPT !.stopped = thread[t].stopped] = thread[t]]_vars
    /\ [](\A t \in Threads :
            thread[t].stopped =>
                /\ Len(Finals(thread[t])) <= 1
                /\ \A i \in 1..Len(thread[t].calls) :
                      thread[t].calls[i].is_final => i = Len(thread[t].calls)
                /\ thread[t].pc \in {"finally", "done"} => Len(Finals(thread[t])) = 1
                /\ thread[t].pc \in {"read", "finish", "final_callback"} =>
                      Partials(thread[t]) = ExpectedPartials(thread[t].chunks)
                /\ thread[t].outcome = "success" => FullyDelivered(t))

\* A turn that was stopped before its first line was read has delivered two
\* partial payloads and the reply.
C11_Witness ==
    \E t \in Threads :
        /\ thread[t].stopped
        /\ thread[t].outcome = "success"
        /\ Len(Partials(thread[t])) = 2
        /\ ~thread[t].cleared
        /\ conversation_history # <<>>
        /\ LastMessage = Reply(t)

\* C12: right after clear_conversation the history is empty (no system
\* prompt) or exactly the one system message with the configured prompt,
\* which is the history the constructor created; a clear of a history that is
\* already so changes nothing; current_model, host and _is_generating are
\* left as they were.
C12_ClearRestoresInitialHistory ==
    [][clear_conversation =>
          /\ SYSTEM_PROMPT = <<>> => conversation_history' = <<>>
          /\ SYSTEM_PROMPT # <<>> =>
                conversation_history' = <<[role |-> "system", content |-> SYSTEM_PROMPT]>>
          /\ Len(conversation_history') <= 1
          /\ conversation_history = InitialHistory(SYSTEM_PROMPT) =>
                conversation_history' = conversation_history
          /\ UNCHANGED <<current_model, host, is_generating>>]_vars

\* The history was cleared while a turn was reading its stream, with a
\* model set, the host changed and the flag raised.
C12_Witness ==
    \E t \in Threads :
        /\ thread[t].cleared
        /\ thread[t].user_added
        /\ thread[t].pc = "read"
        /\ SYSTEM_PROMPT # <<>>
        /\ conversation_history = <<ChatMessage("system", SYSTEM_PROMPT)>>
        /\ current_model = <<"m">>
        /\ host = <<"h", ":", "2">>
        /\ is_generating

\* C13: in every state of every interleaving of turns, clear_conversation,
\* set_model and stop_generation the history has at most one system message,
\* at index 0 (the first position) if any; with a system prompt configured
\* the first message is always that system message.
C13_SystemMessageOnlyFirst ==
    /\ \A i \in 1..Len(conversation_history) :
          conversation_history[i].role = "system" => i = 1
    /\ SYSTEM_PROMPT # <<>> =>
          /\ conversation_history # <<>>
          /\ conversation_history[1] = [role |-> "system", content |-> SYSTEM_PROMPT]

\* Two concurrent turns, one of them stopped and one that saw a clear, have
\* put three messages after the system message.
C13_Witness ==
    /\ SYSTEM_PROMPT # <<>>
    /\ Len(conversation_history) >= 4
    /\ \E t \in Threads : thread[t].stopped
    /\ \E t \in Threads : thread[t].cleared

\* C14: a step other than clear_conversation only appends to the history
\* (the old history is a prefix of the new one); reading a line of the stream
\* leaves the history as it is, and a turn stores its assistant message once,
\* whole, by one append.
C14_AppendOnly ==
    [][/\ clear_conversation \/ IsPrefix(conversation_history, conversation_history')
       /\ \A t \in Threads :
            /\ (thread[t].pc = "read" /\ thread'[t].nread # thread[t].nread) =>
                  UNCHANGED conversation_history
            /\ (thread[t].pc = "finish" /\ thread'[t].pc = "final_callback") =>
                  /\ thread[t].stored = None
                  /\ conversation_history' =
                        Append(conversation_history,
                               [role |-> "assistant",
                                content |-> Concat(thread[t].chunks)])
            /\ thread[t].pc # "finish" =>
                  thread'[t].stored = thread[t].stored
                  \/ thread'[t].stored = None]_vars

\* Two concurrent turns have each stored their user message and their reply.
C14_Witness ==
    /\ Len(conversation_history) = 4
    /\ \A t \in Threads :
          /\ thread[t].stored # None
          /\ ~thread[t].cleared
          /\ thread[t].outcome = "success"

\* C15: a turn whose stream had a line that is not a well-formed object, and
\* whose connection did not fail, ends as the stream without that line ends:
\* successfully or with the empty response, with the partial callbacks of
\* the chunks of its well-formed lines.
C15_CorruptLineSkipped ==
    \A t \in Threads :
        (/\ Ended(t)
         /\ thread[t].malformed
         /\ FinalText(t) \notin {ErrStreaming(e) : e \in TransportErrors}) =>
            /\ thread[t].outcome \in {"success", "empty"}
            /\ Partials(thread[t]) = ExpectedPartials(thread[t].chunks)

\* C16: no line is read after the first line with a true done flag; the
\* text of a stream that ended is the concatenation of the content of every
\* line read, the done line included, and each was reported; a stream that
\* closed without a done line and with text is a successful turn.
C16_StreamEndsAtDoneOrClose ==
    \A t \in Threads :
        /\ thread[t].done_seen => thread[t].pc # "read"
        /\ ~(thread[t].done_seen /\ thread[t].closed)
        /\ (thread[t].pc \in {"finish", "final_callback"}
            \/ thread[t].outcome \in {"success", "empty"}) =>
              /\ thread[t].done_seen \/ thread[t].closed
              /\ thread[t].response_content = Concat(thread[t].chunks)
              /\ Partials(thread[t]) = ExpectedPartials(thread[t].chunks)
        /\ (Ended(t) /\ thread[t].closed /\ thread[t].response_content # <<>>) =>
              /\ thread[t].outcome = "success"
              /\ thread[t].stored = thread[t].response_content
              /\ FinalText(t) = thread[t].response_content

\* A turn ended successfully on a done line that carried the second chunk.
C16_Witness ==
    \E t \in Threads :
        /\ thread[t].done_seen
        /\ thread[t].outcome = "success"
        /\ thread[t].nread = 2
        /\ Len(thread[t].chunks) = 2

\* The step of thread t that builds the request payload.
BuildsPayload(t) == thread[t].pc = "build" /\ thread'[t].pc = "set_generating"

\* The role/content pairs of the history.
Pairs(history) ==
    [i \in 1..Len(history) |-> [role |-> history[i].role, content |-> history[i].content]]

ListingFailed(resp) ==
    \/ resp.kind # "answer"
    \/ resp.status # 200
    \/ resp.body.kind \notin {"no_models", "models"}
    \/ \E i \in 1..Len(resp.body.models) : ~resp.body.models[i].hasName

\* C18: get_available_models never raises, and on every failure it returns
\* the fallback list of the three identifiers.
C18_ListingNeverRaises ==
    returned.op = "get_available_models" =>
        /\ returned.result.raised = "none"
        /\ ListingFailed(returned.response) =>
              /\ Len(returned.result.value) = 3
              /\ returned.result.value[1] = <<"l", "l", "a", "m", "a", "3", ".", "2">>
              /\ returned.result.value[2] = <<"l", "l", "a", "m", "a", "2">>
              /\ returned.result.value[3] = <<"m", "i", "s", "t", "r", "a", "l">>

\* A listing with status 200 whose second entry has no name returned the
\* fallback list.
C18_Witness ==
    /\ returned.op = "get_available_models"
    /\ returned.response.kind = "answer"
    /\ returned.response.status = 200
    /\ returned.response.body.kind = "models"
    /\ Len(returned.response.body.models) = 2
    /\ returned.response.body.models[1].hasName
    /\ ~returned.response.body.models[2].hasName
    /\ returned.result.value = FallbackModels

\* C19: on status 200 and a well-formed body get_available_models returns
\* the name of each entry of the models array, in order; no models key or an
\* empty array gives the empty list.
C19_ListingReturnsNames ==
    (/\ returned.op = "get_available_models"
     /\ ~ListingFailed(returned.response)) =>
        LET models == returned.response.body.models
            value == returned.result.value
        IN  /\ returned.result.raised = "none"
            /\ Len(value) = Len(models)
            /\ \A i \in 1..Len(models) : value[i] = models[i].name

\* The listing of the models b and a, in that order, was returned as is.
C19_Witness ==
    /\ returned.op = "get_available_models"
    /\ returned.response.kind = "answer"
    /\ returned.response.status = 200
    /\ returned.response.body.kind = "models"
    /\ returned.result.value = << <<"b">>, <<"a">> >>

\* C20 as stated: test_connection never raises and returns true exactly
\* when the host answers with a success status (200 to 299).
C20_TrueIffSuccessStatus ==
    returned.op = "test_connection" =>
        /\ returned.result.raised = "none"
        /\ returned.result.value =
              (/\ returned.response.kind = "answer"
               /\ returned.response.status \in 200..299)

\* C20 (amended): test_connection never raises and returns true exactly
\* when the host answers with status 200; it changes no session state.
C20_TrueIffStatus200 ==
    /\ [](returned.op = "test_connection" =>
            /\ returned.result.raised = "none"
            /\ returned.result.value =
                  (/\ returned.response.kind = "answer"
                   /\ returned.response.status = 200))
    /\ [][returned'.op = "test_connection" /\ returned.op = "none" =>
            UNCHANGED <<host, current_model, conversation_history, is_generating>>]_vars

\* The connection test of a host that answered 204 returned false, after a
\* turn that left two messages in the history.
C20_Witness ==
    /\ returned.op = "test_connection"
    /\ returned.response.kind = "answer"
    /\ returned.response.status = 204
    /\ returned.result.value = FALSE
    /\ Len(conversation_history) >= 2
    /\ current_model = <<"m">>

\* The description of an unexpected error (lines 185-188).
ErrUnexpectedPrefix == <<"U", "n", "e", "x", "p", "e", "c", "t", "e", "d", " ", "e", "r", "r", "o", "r", ":", " ">>

\* The kind of failure a terminal description names, by its format.
ErrorKind(text) ==
    IF IsPrefix(ErrStatusPrefix, text) THEN "status"
    ELSE IF IsPrefix(ErrStreamingPrefix, text) THEN "transport"
    ELSE IF IsPrefix(ErrUnexpectedPrefix, text) THEN "unexpected"
    ELSE IF IsPrefix(ErrorPrefix, text) THEN "other"
    ELSE "reply"

\* C21: each kind of failure produces a terminal callback whose description
\* names the kind: a status error and a transport error do, and a turn that
\* met a line it could not decode (and no transport failure) ends with an
\* error description that is not the one of a status, transport or
\* unexpected error.
C21_FailureKindIdentified ==
    \A t \in Threads :
        Ended(t) =>
            /\ thread[t].outcome = "status_error" => ErrorKind(FinalText(t)) = "status"
            /\ FinalText(t) \in {ErrStreaming(e) : e \in TransportErrors} =>
                  ErrorKind(FinalText(t)) = "transport"
            /\ (/\ thread[t].malformed
                /\ FinalText(t) \notin {ErrStreaming(e) : e \in TransportErrors}) =>
                  ErrorKind(FinalText(t)) = "other"

\* The number of user messages in the history.
UserMessages ==
    Len(SelectSeq(conversation_history, LAMBDA m : m.role = "user"))

\* C22: a send_message_sync call made while another turn is in flight is
\* neither rejected nor queued: each worker that found a model appends its
\* own user message, and each ends with exactly one terminal callback, the
\* last call on its own callback, from the worker's own code paths.
C22_ConcurrentTurnsBothRun ==
    /\ \A t \in Threads :
          /\ Len(Finals(thread[t])) <= 1
          /\ Ended(t) =>
                /\ Len(Finals(thread[t])) = 1
                /\ thread[t].calls[Len(thread[t].calls)].is_final
                /\ thread[t].outcome \in {"no_model", "status_error", "streaming_error",
                                          "empty", "success"}
                /\ thread[t].outcome # "no_model" => thread[t].user_added
    /\ (\A t \in Threads : ~thread[t].cleared /\ thread[t].outcome # "forgotten") =>
          UserMessages = Cardinality({t \in Threads : thread[t].user_added})

\* Two turns are reading their streams at the same time, each with its user
\* message in the history.
C22_Witness ==
    /\ \A t \in Threads :
          /\ thread[t].pc = "read"
          /\ thread[t].user_added
          /\ ~thread[t].cleared
    /\ UserMessages = 2

\* The turn of worker t was started and its terminal callback has not been
\* made.
Pending(t) ==
    /\ thread[t].pc \notin {"idle", "done"}
    /\ thread[t].outcome # "forgotten"
    /\ Finals(thread[t]) = <<>>

\* A worker is started in this step.
StartsTurn ==
    \E t \in Threads :
        /\ thread[t].pc \in {"idle", "done"}
        /\ thread'[t].pc \notin {"idle", "done"}

C24_AssistantFollowsUser ==
    \A i \in 1..Len(conversation_history) :
        conversation_history[i].role = "assistant" =>
            /\ i > 1
            /\ conversation_history[i - 1].role = "user"

\* C25: every response the UI writes goes to the assistant placeholder the
\* Send of the same turn created.
C25_WritesOnlyPlaceholder ==
    ui.last_write.kind = "write" =>
        /\ ui.last_write.type = "assistant"
        /\ ui.last_write.placeholder

\* C26: under fair scheduling of the workers, the flag set by an accepted
\* Send is eventually reset, whatever the outcome of the turn and whatever
\* the user does during it.
C26_EventuallySendable ==
    ui.is_waiting_for_response ~> ~ui.is_waiting_for_response

\* The flag was reset by the terminal callback of a turn during which the
\* chat was cleared.
C26_Witness ==
    /\ ~ui.is_waiting_for_response
    /\ ui.sends = 1
    /\ ui.chat_messages = <<>>
    /\ \E t \in Threads :
          /\ thread[t].cleared
          /\ Len(Finals(thread[t])) = 1

\* The click is one the UI turns down.
Rejects ==
    \/ ui.is_waiting_for_response
    \/ Strip(ui.input) = <<>>
    \/ ~Truthy(current_model)

\* C27: a Send click the UI turns down starts no worker and leaves
\* conversation_history, is_generating, current_model,
\* is_waiting_for_response and the text of the message field as they were.
C27_RejectedSendChangesNothing ==
    [][(Rejects /\ _on_send_message) =>
          /\ thread' = thread
          /\ conversation_history' = conversation_history
          /\ is_generating' = is_generating
          /\ current_model' = current_model
          /\ ui'.is_waiting_for_response = ui.is_waiting_for_response
          /\ ui'.input = ui.input]_vars

\* A click with a typed message was turned down because no model is selected.
C27_Witness ==
    /\ ui.chat_messages = <<[type |-> "system", placeholder |-> FALSE]>>
    /\ ui.input = <<"h", "i", " ">>
    /\ current_model = <<>>
    /\ ~ui.is_waiting_for_response

====
